---- MODULE Spec2Model ----
(***************************************************************************)
(* Model of the windings firmware: the QeiManager that extends a 16-bit    *)
(* quadrature-encoder register to an i64 position (src/src/qei_oversize.rs)*)
(* and the periodic TIM1_UP task that samples it, derives a rate and       *)
(* smooths it with a moving average (src/src/main.rs).                     *)
(***************************************************************************)
EXTENDS Integers, Sequences, FiniteSets

VARIABLES
    counter,         \* QeiManager.counter: i64
    previous_count,  \* QeiManager.previous_count: u16
    call,            \* the last call made on the QeiManager and what it returned
    p,               \* the true (unbounded) shaft position behind the register
    stored,          \* the true position at the sample stored in previous_count
    pc,              \* where the TIM1_UP task stands
    brr,             \* update: the register value read by qei_timer.count()
    rev_count,       \* update: rev_count, in 1/ENCODER_RATE revolutions
    revs,            \* update: revs, in 1/ENCODER_RATE revolutions per minute
    last_count,      \* revs_per_minute.last_count, in 1/ENCODER_RATE revolutions
    acc,             \* revs_per_minute.acc, the moving average
    cap,             \* the capacity of acc
    shown,           \* what the task last handed to draw_numbers
    ticks,           \* completed runs of the task
    panicked,        \* "no", or where the program has panicked: "unwrap", "display"
    uif,             \* TIM1's update interrupt flag, which requests the task
    reads,           \* how many times the task has read the register
    results,         \* the Result of sample in each run of the task, oldest first
    fed,             \* every value fed to acc so far, oldest first
    out              \* the last call made on acc and what it returned

qeiVars == <<counter, previous_count, call, p, stored>>
taskVars_but_pc == <<brr, rev_count, revs, last_count, shown, ticks, panicked, uif, reads,
                     results>>
taskVars == <<pc, taskVars_but_pc>>
avgVars == <<acc, cap, fed, out>>

(***************************************************************************)
(* Program constants.                                                      *)
(***************************************************************************)
THRESHOLD == 32768
U16_MAX == 65535
U16_MOD == U16_MAX + 1
\* ENCODER_RATE, counts per revolution
ENCODER_RATE == 4096
\* the capacity of MyMovAvg.acc
WINDOW_SIZE == 20
\* the task runs 20 times a second, and a minute has 60 seconds
TICKS_PER_SECOND == 20
SECONDS_PER_MINUTE == 60
\* f32 has a 24-bit significand: it holds every integer below 2^24 in magnitude
F32_EXACT == 16777216

(***************************************************************************)
(* Bounds of the model.                                                    *)
(***************************************************************************)
\* Raw register values are taken within Spread of 0, THRESHOLD and U16_MAX.
Spread == 2
\* Calls that would take |counter| beyond MaxCount are not made.
MaxCount == 70000
\* A shaft under track stays within MaxPosition of its start, and so does
\* the counter that follows it.
MaxPosition == 200000
\* The task runs at most MaxTicks times.
MaxTicks == 3
\* A moving average under test has a capacity in 1..MaxCap, or WINDOW_SIZE,
MaxCap == 3
\* is fed values in -1..MaxValue,
MaxValue == 1
\* at most MaxExtra more of them than its capacity,
MaxExtra == 2
\* and the stream of values changes at most MaxChanges times.
MaxChanges == 2

RawSamples ==
    (0 .. Spread) \cup ((THRESHOLD - Spread) .. (THRESHOLD + Spread))
        \cup ((U16_MAX - Spread) .. U16_MAX)

\* The register values of the crate's unit tests.
TestSamples == {5, 55, 13500, 13546, 15000, 15678, 16000, 62999, 63000, 65000, 65489,
                65522, 65532}

\* The samples given to a QeiManager under test.
Samples == RawSamples \cup TestSamples

Abs(x) == IF x < 0 THEN -x ELSE x

(***************************************************************************)
(* u16 arithmetic.  An operation whose mathematical result leaves          *)
(* 0..65535 overflows: a debug build panics, a release build wraps.        *)
(***************************************************************************)
InU16(x) == x \in 0 .. U16_MAX
WrapU16(x) == x % U16_MOD

\* The wrap expressions evaluated with the addition first:
\* u16::max_value() + previous_count - current_count + 1.
UpdateIntermediates_adds_first(previous, current) ==
    IF current = previous THEN <<>>
    ELSE IF previous < current THEN
        IF current - previous < THRESHOLD THEN
            <<current - previous, current - previous>>
        ELSE IF current - previous > THRESHOLD THEN
            <<current - previous, current - previous,
              U16_MAX + previous,
              (U16_MAX + previous) - current,
              ((U16_MAX + previous) - current) + 1>>
        ELSE <<current - previous, current - previous>>
    ELSE
        IF previous - current < THRESHOLD THEN
            <<previous - current, previous - current>>
        ELSE IF previous - current > THRESHOLD THEN
            <<previous - current, previous - current,
              U16_MAX + current,
              (U16_MAX + current) - previous,
              ((U16_MAX + current) - previous) + 1>>
        ELSE <<previous - current, previous - current>>

\* The u16 values QeiManager::update computes on its way, in evaluation order.
UpdateIntermediates(previous, current) ==
    IF current = previous THEN <<>>
    ELSE IF previous < current THEN
        IF current - previous < THRESHOLD THEN
            <<current - previous, current - previous>>
        ELSE IF current - previous > THRESHOLD THEN
            <<current - previous, current - previous,
              U16_MAX - current,
              (U16_MAX - current) + previous,
              ((U16_MAX - current) + previous) + 1>>
        ELSE <<current - previous, current - previous>>
    ELSE
        IF previous - current < THRESHOLD THEN
            <<previous - current, previous - current>>
        ELSE IF previous - current > THRESHOLD THEN
            <<previous - current, previous - current,
              U16_MAX - previous,
              (U16_MAX - previous) + current,
              ((U16_MAX - previous) + current) + 1>>
        ELSE <<previous - current, previous - current>>

UpdateOverflows(previous, current) ==
    \E i \in DOMAIN UpdateIntermediates(previous, current) :
        ~InU16(UpdateIntermediates(previous, current)[i])

(***************************************************************************)
(* Faulty variants of update and reset, used to show that the properties   *)
(* below depend on the code: each is the code with one slip.               *)
(***************************************************************************)
\* The wrap branches forget the "+ 1" (u16::MAX - current + previous).
update_wrap_without_plus_one(cnt, previous, current) ==
    LET diff == IF previous < current THEN current - previous ELSE previous - current
        sign == IF previous < current THEN 1 ELSE -1
    IN  IF current = previous THEN
            [counter |-> cnt, previous_count |-> previous, ret |-> "Ok"]
        ELSE IF diff < THRESHOLD THEN
            [counter |-> cnt + sign * diff, previous_count |-> current, ret |-> "Ok"]
        ELSE IF diff > THRESHOLD THEN
            [counter |-> cnt - sign * (U16_MAX - diff), previous_count |-> current, ret |-> "Ok"]
        ELSE [counter |-> cnt, previous_count |-> previous, ret |-> "SampleTooFar"]

\* The wrap branches carry the sign of the branch above them: "+=" on an
\* underflow, "-=" on an overflow.
update_wrap_sign_swapped(cnt, previous, current) ==
    LET diff == IF previous < current THEN current - previous ELSE previous - current
        sign == IF previous < current THEN 1 ELSE -1
    IN  IF current = previous THEN
            [counter |-> cnt, previous_count |-> previous, ret |-> "Ok"]
        ELSE IF diff < THRESHOLD THEN
            [counter |-> cnt + sign * diff, previous_count |-> current, ret |-> "Ok"]
        ELSE IF diff > THRESHOLD THEN
            [counter |-> cnt + sign * (U16_MOD - diff), previous_count |-> current, ret |-> "Ok"]
        ELSE [counter |-> cnt, previous_count |-> previous, ret |-> "SampleTooFar"]

\* The wrap is recognised only downwards: a fall of more than THRESHOLD is
\* still counted as clockwise rotation.
update_no_overflow_branch(cnt, previous, current) ==
    LET diff == IF previous < current THEN current - previous ELSE previous - current
    IN  IF current = previous THEN
            [counter |-> cnt, previous_count |-> previous, ret |-> "Ok"]
        ELSE IF diff = THRESHOLD THEN
            [counter |-> cnt, previous_count |-> previous, ret |-> "SampleTooFar"]
        ELSE IF previous < current THEN
            [counter |-> cnt + (IF diff < THRESHOLD THEN diff ELSE diff - U16_MOD),
             previous_count |-> current, ret |-> "Ok"]
        ELSE
            [counter |-> cnt - diff, previous_count |-> current, ret |-> "Ok"]

\* "<= THRESHOLD" where the code has "< THRESHOLD": the boundary is taken as
\* a move without wrap and never reported.
update_threshold_inclusive(cnt, previous, current) ==
    LET diff == IF previous < current THEN current - previous ELSE previous - current
        sign == IF previous < current THEN 1 ELSE -1
    IN  IF current = previous THEN
            [counter |-> cnt, previous_count |-> previous, ret |-> "Ok"]
        ELSE IF diff <= THRESHOLD THEN
            [counter |-> cnt + sign * diff, previous_count |-> current, ret |-> "Ok"]
        ELSE
            [counter |-> cnt - sign * (U16_MOD - diff), previous_count |-> current, ret |-> "Ok"]

\* previous_count is stored before the distance is checked, so also when the
\* call returns SampleTooFar.
update_stores_on_error(cnt, previous, current) ==
    LET diff == IF previous < current THEN current - previous ELSE previous - current
        sign == IF previous < current THEN 1 ELSE -1
    IN  IF current = previous THEN
            [counter |-> cnt, previous_count |-> previous, ret |-> "Ok"]
        ELSE IF diff < THRESHOLD THEN
            [counter |-> cnt + sign * diff, previous_count |-> current, ret |-> "Ok"]
        ELSE IF diff > THRESHOLD THEN
            [counter |-> cnt - sign * (U16_MOD - diff), previous_count |-> current, ret |-> "Ok"]
        ELSE [counter |-> cnt, previous_count |-> current, ret |-> "SampleTooFar"]

\* Without the early return for an unchanged register, and with a no-wrap
\* test that asks for a distance above 0: an unchanged register is taken for
\* a whole revolution.
update_equal_is_revolution(cnt, previous, current) ==
    LET diff == IF previous <= current THEN current - previous ELSE previous - current
        sign == IF previous <= current THEN 1 ELSE -1
    IN  IF diff # 0 /\ diff < THRESHOLD THEN
            [counter |-> cnt + sign * diff, previous_count |-> current, ret |-> "Ok"]
        ELSE IF diff # THRESHOLD THEN
            [counter |-> cnt - sign * (U16_MOD - diff), previous_count |-> current, ret |-> "Ok"]
        ELSE [counter |-> cnt, previous_count |-> previous, ret |-> "SampleTooFar"]

\* The clockwise underflow branch without its + 1; the overflow branch is right.
update_underflow_without_plus_one(cnt, previous, current) ==
    IF current = previous THEN
        [counter |-> cnt, previous_count |-> previous, ret |-> "Ok"]
    ELSE IF previous < current THEN
        IF WrapU16(current - previous) < THRESHOLD THEN
            [counter |-> cnt + WrapU16(current - previous),
             previous_count |-> current, ret |-> "Ok"]
        ELSE IF WrapU16(current - previous) > THRESHOLD THEN
            [counter |-> cnt - WrapU16(WrapU16(U16_MAX - current) + previous),
             previous_count |-> current, ret |-> "Ok"]
        ELSE
            [counter |-> cnt, previous_count |-> previous, ret |-> "SampleTooFar"]
    ELSE
        IF WrapU16(previous - current) < THRESHOLD THEN
            [counter |-> cnt - WrapU16(previous - current),
             previous_count |-> current, ret |-> "Ok"]
        ELSE IF WrapU16(previous - current) > THRESHOLD THEN
            [counter |-> cnt + WrapU16(WrapU16(WrapU16(U16_MAX - previous) + current) + 1),
             previous_count |-> current, ret |-> "Ok"]
        ELSE
            [counter |-> cnt, previous_count |-> previous, ret |-> "SampleTooFar"]

\* update taking every difference above the threshold for an error.
update_rejects_wrap(cnt, previous, current) ==
    IF current = previous THEN
        [counter |-> cnt, previous_count |-> previous, ret |-> "Ok"]
    ELSE IF previous < current THEN
        IF WrapU16(current - previous) < THRESHOLD THEN
            [counter |-> cnt + WrapU16(current - previous),
             previous_count |-> current, ret |-> "Ok"]
        ELSE
            [counter |-> cnt, previous_count |-> previous, ret |-> "SampleTooFar"]
    ELSE
        IF WrapU16(previous - current) < THRESHOLD THEN
            [counter |-> cnt - WrapU16(previous - current),
             previous_count |-> current, ret |-> "Ok"]
        ELSE
            [counter |-> cnt, previous_count |-> previous, ret |-> "SampleTooFar"]

\* reset zeroing the wrong field.
reset_zeroes_previous_count(cnt, previous) == [counter |-> cnt, previous_count |-> 0]

\* reset written as a fresh QeiManager::new().
reset_to_new(cnt, previous) == [counter |-> 0, previous_count |-> 0]

(***************************************************************************)
(* QeiManager::update, as a function of the fields and the sample: the     *)
(* new fields and the returned Result.                                     *)
(***************************************************************************)
update(cnt, previous, current) ==
    IF current = previous THEN
        [counter |-> cnt, previous_count |-> previous, ret |-> "Ok"]
    ELSE IF previous < current THEN
        IF WrapU16(current - previous) < THRESHOLD THEN
            \* Counterclockwise rotation no overflow
            [counter |-> cnt + WrapU16(current - previous),
             previous_count |-> current, ret |-> "Ok"]
        ELSE IF WrapU16(current - previous) > THRESHOLD THEN
            \* Clockwise rotation underflow
            [counter |-> cnt - WrapU16(WrapU16(WrapU16(U16_MAX - current) + previous) + 1),
             previous_count |-> current, ret |-> "Ok"]
        ELSE
            [counter |-> cnt, previous_count |-> previous, ret |-> "SampleTooFar"]
    ELSE
        IF WrapU16(previous - current) < THRESHOLD THEN
            \* Clockwise rotation, no overflow
            [counter |-> cnt - WrapU16(previous - current),
             previous_count |-> current, ret |-> "Ok"]
        ELSE IF WrapU16(previous - current) > THRESHOLD THEN
            \* Counterclockwise rotation with overflow
            [counter |-> cnt + WrapU16(WrapU16(WrapU16(U16_MAX - previous) + current) + 1),
             previous_count |-> current, ret |-> "Ok"]
        ELSE
            [counter |-> cnt, previous_count |-> previous, ret |-> "SampleTooFar"]

\* QeiManager::sample
sample(cnt, previous, current) == update(cnt, previous, current)

\* QeiManager::sample_unwrap: the sample, and a panic on an Err.
sample_unwrap(cnt, previous, current) ==
    LET r == update(cnt, previous, current) IN
    [counter |-> r.counter, previous_count |-> r.previous_count, ret |-> r.ret,
     panic |-> r.ret # "Ok"]

\* QeiManager::count
count(cnt, previous) == cnt

\* QeiManager::reset
reset(cnt, previous) == [counter |-> 0, previous_count |-> previous]

(***************************************************************************)
(* The moving average (MovAvg<f32, f32, 20>), after its description: a     *)
(* window of at most n values kept in ring order, their running sum and    *)
(* their number.  An average is kept as the quotient it is, num / den.     *)
(***************************************************************************)
MovAvgNew == [window |-> <<>>, running_sum |-> 0, filled_count |-> 0, oldest |-> 1]

\* The average divides by the capacity whatever the window holds.
get_divides_by_capacity(f) == [num |-> f.running_sum, den |-> WINDOW_SIZE]

\* MovAvg::get: running_sum / filled_count
get(f) == [num |-> f.running_sum, den |-> f.filled_count]

\* A full window gives up the value fed last, not the oldest one, and its
\* sum is not corrected for it.
feed_state_keeps_evicted(f, value, n) ==
    IF f.filled_count < n THEN
        [window |-> Append(f.window, value),
         running_sum |-> f.running_sum + value,
         filled_count |-> f.filled_count + 1,
         oldest |-> 1]
    ELSE
        [window |-> [f.window EXCEPT ![f.oldest] = value],
         running_sum |-> f.running_sum + value,
         filled_count |-> f.filled_count,
         oldest |-> (f.oldest % n) + 1]

\* MovAvg::feed, the filter after it
feed_state(f, value, n) ==
    IF f.filled_count < n THEN
        [window |-> Append(f.window, value),
         running_sum |-> f.running_sum + value,
         filled_count |-> f.filled_count + 1,
         oldest |-> 1]
    ELSE
        LET evicted == f.window[f.oldest] IN
        [window |-> [f.window EXCEPT ![f.oldest] = value],
         running_sum |-> f.running_sum + (value - evicted),
         filled_count |-> f.filled_count,
         oldest |-> (f.oldest % n) + 1]

\* MovAvg::feed, the average it returns
feed(f, value, n) == get(feed_state(f, value, n))

NoFeed == [op |-> "new", arg |-> 0, avg |-> [num |-> 0, den |-> 1], before |-> MovAvgNew]

\* What the driver records of a call: the operation, its argument, the Result
\* or value it returned, and the fields as they were before it.
NoCall == [op |-> "new", arg |-> 0, ret |-> "Ok", val |-> 0, prev |-> 0, before |-> 0]

(***************************************************************************)
(* The QeiManager driven through its public interface.                     *)
(***************************************************************************)
\* QeiManager::new
QeiNew ==
    /\ counter = 0
    /\ previous_count = 0
    /\ call = NoCall
    /\ p = 0
    /\ stored = 0

\* app::init
TaskInit ==
    /\ pc = "idle"
    /\ brr = 0
    /\ rev_count = 0
    /\ revs = 0
    /\ last_count = 0
    /\ shown = [val |-> 0, val2 |-> [num |-> 0, den |-> 1]]
    /\ ticks = 0
    /\ panicked = "no"
    /\ uif = FALSE
    /\ reads = 0
    /\ results = <<>>

AvgInit ==
    /\ acc = MovAvgNew
    /\ fed = <<>>
    /\ out = NoFeed

Init ==
    /\ QeiNew
    /\ TaskInit
    /\ AvgInit
    /\ cap = WINDOW_SIZE

Sample(raw) ==
    LET r == sample(counter, previous_count, raw) IN
    /\ panicked = "no"
    /\ Abs(r.counter) <= MaxCount
    /\ counter' = r.counter
    /\ previous_count' = r.previous_count
    /\ call' = [op |-> "sample", arg |-> raw, ret |-> r.ret, val |-> 0,
                prev |-> previous_count, before |-> counter]
    /\ UNCHANGED <<p, stored, taskVars, avgVars>>

\* A call of sample_unwrap; a panic ends the program (panic_probe).
SampleUnwrap(raw) ==
    LET r == sample_unwrap(counter, previous_count, raw) IN
    /\ panicked = "no"
    /\ Abs(r.counter) <= MaxCount
    /\ counter' = r.counter
    /\ previous_count' = r.previous_count
    /\ call' = [op |-> "sample_unwrap", arg |-> raw, ret |-> r.ret, val |-> 0,
                prev |-> previous_count, before |-> counter]
    /\ panicked' = IF r.panic THEN "unwrap" ELSE panicked
    /\ UNCHANGED <<p, stored, pc, brr, rev_count, revs, last_count, shown, ticks, uif, reads,
                   results, avgVars>>

Reset ==
    LET r == reset(counter, previous_count) IN
    /\ panicked = "no"
    /\ counter' = r.counter
    /\ previous_count' = r.previous_count
    /\ call' = [op |-> "reset", arg |-> 0, ret |-> "Ok", val |-> 0,
                prev |-> previous_count, before |-> counter]
    /\ UNCHANGED <<p, stored, taskVars, avgVars>>

Count ==
    /\ panicked = "no"
    /\ call' = [op |-> "count", arg |-> 0, ret |-> "Ok",
                val |-> count(counter, previous_count),
                prev |-> previous_count, before |-> counter]
    /\ UNCHANGED <<counter, previous_count, p, stored, taskVars, avgVars>>

vars == <<qeiVars, taskVars, avgVars>>

Next ==
    \/ \E raw \in Samples : Sample(raw)
    \/ \E raw \in Samples : SampleUnwrap(raw)
    \/ Reset
    \/ Count

Spec == Init /\ [][Next]_vars

(***************************************************************************)
(* The QeiManager sampled against a true position: the shaft moves by d,   *)
(* |d| < 2^15, between two samples and the register shows p mod 2^16.      *)
(***************************************************************************)
\* The displacements of magnitude < 2^15 that bring the register onto one of
\* the samples of the model.
SafeMoves(pos) ==
    { d \in { r - (pos % U16_MOD) + k * U16_MOD : r \in Samples, k \in {-1, 0, 1} } :
        Abs(d) < THRESHOLD }

TrackedSample(d) ==
    LET r == sample(counter, previous_count, (p + d) % U16_MOD) IN
    /\ panicked = "no"
    /\ Abs(p + d) <= MaxPosition
    /\ p' = p + d
    /\ stored' = IF r.ret = "Ok" THEN p + d ELSE stored
    /\ counter' = r.counter
    /\ previous_count' = r.previous_count
    /\ call' = [op |-> "sample", arg |-> (p + d) % U16_MOD, ret |-> r.ret, val |-> 0,
                prev |-> previous_count, before |-> counter]
    /\ UNCHANGED <<taskVars, avgVars>>

TrackedSampleUnwrap(d) ==
    LET r == sample_unwrap(counter, previous_count, (p + d) % U16_MOD) IN
    /\ panicked = "no"
    /\ Abs(p + d) <= MaxPosition
    /\ p' = p + d
    /\ stored' = IF r.ret = "Ok" THEN p + d ELSE stored
    /\ counter' = r.counter
    /\ previous_count' = r.previous_count
    /\ call' = [op |-> "sample_unwrap", arg |-> (p + d) % U16_MOD, ret |-> r.ret,
                val |-> 0, prev |-> previous_count, before |-> counter]
    /\ panicked' = IF r.panic THEN "unwrap" ELSE panicked
    /\ UNCHANGED <<pc, brr, rev_count, revs, last_count, shown, ticks, uif, reads,
                   results, avgVars>>

NextTrack ==
    \/ \E d \in SafeMoves(p) : TrackedSample(d)
    \/ \E d \in SafeMoves(p) : TrackedSampleUnwrap(d)

SpecTrack == Init /\ [][NextTrack]_vars

(***************************************************************************)
(* The QeiManager sampled too rarely: the shaft moves by any d between two *)
(* samples, up to two revolutions of the register.                         *)
(***************************************************************************)
\* The displacements that bring the register onto one of the values the
\* task reads.
AnyMoves(pos) ==
    { r - (pos % U16_MOD) + k * U16_MOD : r \in RawSamples, k \in {-2, -1, 0, 1} }

AliasedSample(d) ==
    /\ TrackedSample(d)
    /\ Abs(counter') <= MaxPosition

AliasedSampleUnwrap(d) ==
    /\ TrackedSampleUnwrap(d)
    /\ Abs(counter') <= MaxPosition

NextAlias ==
    \/ \E d \in AnyMoves(p) : AliasedSample(d)
    \/ \E d \in AnyMoves(p) : AliasedSampleUnwrap(d)

SpecAlias == Init /\ [][NextAlias]_vars

(***************************************************************************)
(* f32 arithmetic on values kept as integers in units of 1/ENCODER_RATE    *)
(* (a power of two, so the scaling keeps the significand): a result is     *)
(* rounded to 24 significant bits, ties to even.                   *)
(***************************************************************************)
\* The least q = 2^k, from q on, for which a \div q has 24 bits or less.
RECURSIVE Quantum(_, _)
Quantum(a, q) == IF a \div q < F32_EXACT THEN q ELSE Quantum(a, 2 * q)

\* a >= 0 rounded to a multiple of q, a tie to the even multiple.
RoundTo(a, q) ==
    LET lo == (a \div q) * q IN
    IF 2 * (a - lo) > q \/ (2 * (a - lo) = q /\ (a \div q) % 2 = 1)
    THEN lo + q ELSE lo

RoundF32(x) ==
    IF Abs(x) < F32_EXACT THEN x
    ELSE IF x < 0 THEN -RoundTo(-x, Quantum(-x, 2))
    ELSE RoundTo(x, Quantum(x, 2))

\* The task takes its sample with sample_unwrap.
task_sample_unwrapping(cnt, previous, current) == sample_unwrap(cnt, previous, current)

\* app::update, "qei_manager.sample(brr);": the Result is dropped.
task_sample(cnt, previous, current) ==
    LET r == sample(cnt, previous, current) IN
    [counter |-> r.counter, previous_count |-> r.previous_count, ret |-> r.ret,
     panic |-> FALSE]

(***************************************************************************)
(* app::update, "let rev_count = ..." to "let revs = ...": the position in *)
(* revolutions, its change since the last run, and the rate, from the      *)
(* counter and revs_per_minute.last_count.                                 *)
(***************************************************************************)
\* last_count is left as it was.
task_rate_keeps_last(cnt, previous, last) ==
    LET rc == RoundF32(count(cnt, previous))
        rev_diff == RoundF32(rc - last)
    IN  [rev_count |-> rc, last_count |-> last,
         revs |-> RoundF32(RoundF32(rev_diff * TICKS_PER_SECOND) * SECONDS_PER_MINUTE)]

\* last_count is given rev_diff, not rev_count.
task_rate_stores_diff(cnt, previous, last) ==
    LET rc == RoundF32(count(cnt, previous))
        rev_diff == RoundF32(rc - last)
    IN  [rev_count |-> rc, last_count |-> rev_diff,
         revs |-> RoundF32(RoundF32(rev_diff * TICKS_PER_SECOND) * SECONDS_PER_MINUTE)]

task_rate(cnt, previous, last) ==
    LET rc == RoundF32(count(cnt, previous))
        rev_diff == RoundF32(rc - last)
    IN  [rev_count |-> rc, last_count |-> rc,
         revs |-> RoundF32(RoundF32(rev_diff * TICKS_PER_SECOND) * SECONDS_PER_MINUTE)]

(***************************************************************************)
(* app::update, the order of its statements: the one that follows `at`,    *)
(* ret being the Result of the sample.                                     *)
(***************************************************************************)
\* The task returns early when the sample is an Err.
next_pc_returns_on_err(at, ret) ==
    IF at = "sample" THEN (IF ret = "Ok" THEN "rate" ELSE "idle")
    ELSE IF at = "rate" THEN "feed"
    ELSE IF at = "feed" THEN "draw"
    ELSE "clear"

\* The average is fed before the rate of this run is computed.
next_pc_feeds_first(at, ret) ==
    IF at = "sample" THEN "feed"
    ELSE IF at = "feed" THEN "rate"
    ELSE IF at = "rate" THEN "draw"
    ELSE "clear"

\* The numbers are drawn before the average is fed.
next_pc_draws_first(at, ret) ==
    IF at = "sample" THEN "rate"
    ELSE IF at = "rate" THEN "draw"
    ELSE IF at = "draw" THEN "feed"
    ELSE "clear"

next_pc(at, ret) ==
    IF at = "sample" THEN "rate"
    ELSE IF at = "rate" THEN "feed"
    ELSE IF at = "feed" THEN "draw"
    ELSE "clear"

(***************************************************************************)
(* app::update, the task bound to TIM1_UP, statement by statement.  The    *)
(* task is started by TIM1's update interrupt and runs to its end before   *)
(* it can be started again; its resources are local to it.                 *)
(***************************************************************************)
\* TIM1 reaches its period (display_timer.set_frequency(Hertz(20)),
\* enable_update_interrupt, start): the update flag is raised, at any moment.
TimerFires ==
    /\ uif' = TRUE
    /\ UNCHANGED <<qeiVars, pc, brr, rev_count, revs, last_count, shown, ticks, panicked,
                   reads, results, avgVars>>

\* let brr = qei_timer.count();
TaskRead ==
    /\ pc = "idle"
    /\ uif
    /\ reads < MaxTicks
    /\ \E raw \in RawSamples : brr' = raw
    /\ reads' = reads + 1
    /\ pc' = "sample"
    /\ UNCHANGED <<qeiVars, rev_count, revs, last_count, shown, ticks, panicked, uif,
                   results, avgVars>>

\* qei_manager.sample(brr);
TaskSample ==
    /\ pc = "sample"
    /\ LET r == task_sample(counter, previous_count, brr) IN
        /\ counter' = r.counter
        /\ previous_count' = r.previous_count
        /\ call' = [op |-> "sample", arg |-> brr, ret |-> r.ret, val |-> 0,
                    prev |-> previous_count, before |-> counter]
        /\ results' = Append(results, r.ret)
        /\ panicked' = IF r.panic THEN "unwrap" ELSE panicked
        /\ pc' = IF r.panic THEN "panic" ELSE next_pc(pc, r.ret)
    /\ UNCHANGED <<p, stored, brr, rev_count, revs, last_count, shown, ticks, uif, reads,
                   avgVars>>

\* let rev_count = qei_manager.count() as f32 / ENCODER_RATE;
\* let rev_diff = rev_count - revs_per_minute.last_count;
\* revs_per_minute.last_count = rev_count;
\* let revs = rev_diff * 20. * 60.;
TaskRate ==
    /\ pc = "rate"
    /\ LET r == task_rate(counter, previous_count, last_count) IN
        /\ rev_count' = r.rev_count
        /\ last_count' = r.last_count
        /\ revs' = r.revs
    /\ pc' = next_pc(pc, "Ok")
    /\ UNCHANGED <<qeiVars, brr, shown, ticks, panicked, uif, reads, results, avgVars>>

\* revs_per_minute.acc.feed(revs);
TaskFeed ==
    /\ pc = "feed"
    /\ acc' = feed_state(acc, revs, cap)
    /\ fed' = Append(fed, revs)
    /\ out' = [op |-> "feed", arg |-> revs, avg |-> feed(acc, revs, cap), before |-> acc]
    /\ pc' = next_pc(pc, "Ok")
    /\ UNCHANGED <<qeiVars, taskVars_but_pc, cap>>

\* display.clear_buffer();
\* draw_numbers(display, rev_count as f32, revs_per_minute.acc.get());
\* display.flush().unwrap();
\* draw_numbers is called with the two numbers; then the display either
\* takes what is drawn and flushed, or returns an Err to one of the unwraps
\* (of draw in draw_numbers, of flush), which panics.
TaskDraw ==
    /\ pc = "draw"
    /\ out' = [op |-> "get", arg |-> 0, avg |-> get(acc), before |-> acc]
    /\ shown' = [val |-> rev_count, val2 |-> get(acc)]
    /\ \E written \in BOOLEAN :
          IF written
          THEN /\ panicked' = panicked
               /\ pc' = next_pc(pc, "Ok")
          ELSE /\ panicked' = "display"
               /\ pc' = "panic"
    /\ UNCHANGED <<qeiVars, brr, rev_count, revs, last_count, ticks, uif, reads,
                   results, acc, cap, fed>>

\* display_timer.clear_update_interrupt(); and the end of the task.
TaskClear ==
    /\ pc = "clear"
    /\ pc' = "idle"
    /\ ticks' = ticks + 1
    /\ uif' = FALSE
    /\ UNCHANGED <<qeiVars, brr, rev_count, revs, last_count, shown, panicked, reads,
                   results, avgVars>>

TaskStep == TaskRead \/ TaskSample \/ TaskRate \/ TaskFeed \/ TaskDraw \/ TaskClear

NextTask == TimerFires \/ TaskStep

SpecTask == Init /\ [][NextTask]_vars

(***************************************************************************)
(* A moving average of some capacity driven through feed and get.          *)
(***************************************************************************)
Capacities == (1 .. MaxCap) \cup {WINDOW_SIZE}
FeedValues == (-1) .. MaxValue

\* How many times a stream of values changes value.
Changes(stream) == Cardinality({ i \in 1 .. Len(stream) - 1 : stream[i] # stream[i + 1] })

InitAvg ==
    /\ QeiNew
    /\ TaskInit
    /\ AvgInit
    /\ cap \in Capacities

Feed(value) ==
    /\ Len(fed) < cap + MaxExtra
    /\ Changes(Append(fed, value)) <= MaxChanges
    /\ acc' = feed_state(acc, value, cap)
    /\ fed' = Append(fed, value)
    /\ out' = [op |-> "feed", arg |-> value, avg |-> feed(acc, value, cap), before |-> acc]
    /\ UNCHANGED <<qeiVars, taskVars, cap>>

Get ==
    /\ out' = [op |-> "get", arg |-> 0, avg |-> get(acc), before |-> acc]
    /\ UNCHANGED <<qeiVars, taskVars, acc, cap, fed>>

NextAvg ==
    \/ \E value \in FeedValues : Feed(value)
    \/ Get

SpecAvg == InitAvg /\ [][NextAvg]_vars

(***************************************************************************)
(* Reference notions the properties are stated with.                       *)
(***************************************************************************)
\* Distance between two register values around the 2^16 circle.
CircDist(a, b) ==
    LET m == (b - a) % U16_MOD IN IF m <= U16_MOD - m THEN m ELSE U16_MOD - m

\* The d congruent to b - a modulo 2^16 with -2^15 <= d < 2^15.
CircDisp(a, b) ==
    LET m == (b - a) % U16_MOD IN IF m < THRESHOLD THEN m ELSE m - U16_MOD

UnsignedDiff(a, b) == IF a < b THEN b - a ELSE a - b

Congruent == counter % U16_MOD = previous_count

(***************************************************************************)
(* C1: cumulative_position mod 2^16, as an unsigned value, always equals   *)
(* previous_raw_sample, in every state reachable by sample and reset calls.*)
(* As stated it fails: reset() zeroes the counter and keeps the sample.    *)
(***************************************************************************)
C1_CongruentAlways == Congruent

\* C1 amended: the congruence holds after new(), every sample call (Ok or
\* SampleTooFar) keeps (cumulative_position - previous_raw_sample) mod 2^16 as
\* it was, so the congruence holds as long as no reset() was called, and
\* reset() keeps it exactly when previous_raw_sample is 0.
C1_SampleKeepsCongruence ==
    Congruent /\
    [][ /\ (call'.op = "sample" /\ Sample(call'.arg)) =>
              (counter' - previous_count') % U16_MOD = (counter - previous_count) % U16_MOD
        /\ Reset => (Congruent' <=> previous_count = 0) ]_vars

C1_Witness ==
    /\ call.op = "sample" /\ call.ret = "Ok"
    /\ call.before = 0 /\ call.prev = 0
    /\ counter = -1 /\ previous_count = U16_MAX

(***************************************************************************)
(* C2: sampled against a true position p that starts at 0 and moves by     *)
(* less than 2^15 between samples, every sample returns Ok and count()     *)
(* equals p, across overflows and underflows of the register.              *)
(***************************************************************************)
C2_CountTracksPosition ==
    /\ count(counter, previous_count) = p
    /\ call.op = "sample" => call.ret = "Ok"

C2_Witness ==
    /\ call.op = "sample"
    /\ p < -2 * U16_MOD
    /\ count(counter, previous_count) = p

(***************************************************************************)
(* C3: from (c, a), with a and b less than 2^15 apart around the circle,   *)
(* sample(b) returns Ok, stores b and moves count() by the signed circular *)
(* displacement from a to b; from c = 0 count() is that displacement.      *)
(***************************************************************************)
C3_SampleAddsDisplacement ==
    (call.op = "sample" /\ CircDist(call.prev, call.arg) < THRESHOLD) =>
        /\ call.ret = "Ok"
        /\ previous_count = call.arg
        /\ count(counter, previous_count) = call.before + CircDisp(call.prev, call.arg)
        /\ Abs(CircDisp(call.prev, call.arg)) < THRESHOLD
        /\ call.before = 0 =>
              count(counter, previous_count) = CircDisp(call.prev, call.arg)

C3_Witness ==
    /\ call.op = "sample"
    /\ call.prev - call.arg > THRESHOLD
    /\ call.before # 0
    /\ counter = call.before + U16_MOD - (call.prev - call.arg)

(***************************************************************************)
(* C4: sample returns SampleTooFar exactly when the unsigned difference    *)
(* between raw and previous_raw_sample is 2^15, Ok for every other pair,   *)
(* and nothing else.                                                       *)
(***************************************************************************)
C4_TooFarIffThreshold ==
    call.op = "sample" =>
        /\ call.ret \in {"Ok", "SampleTooFar"}
        /\ call.ret = "SampleTooFar" <=> UnsignedDiff(call.prev, call.arg) = THRESHOLD

C4_Witness ==
    /\ call.op = "sample"
    /\ call.ret = "SampleTooFar"
    /\ call.prev > call.arg

(***************************************************************************)
(* C5: a sample that returns SampleTooFar leaves both fields as they were, *)
(* so any later sample gives the result and the state it would have given  *)
(* had the failed call not been made.                                      *)
(***************************************************************************)
C5_TooFarChangesNothing ==
    (call.op = "sample" /\ call.ret = "SampleTooFar") =>
        /\ counter = call.before
        /\ previous_count = call.prev
        /\ \A raw2 \in Samples :
              sample(counter, previous_count, raw2) = sample(call.before, call.prev, raw2)

C5_Witness ==
    /\ call.op = "sample"
    /\ call.ret = "SampleTooFar"
    /\ call.before # 0
    /\ call.prev < call.arg

(***************************************************************************)
(* C6: sample(x) right after sample(x) changes neither field, and a        *)
(* sample equal to previous_raw_sample returns Ok and changes nothing.     *)
(***************************************************************************)
C6_RepeatedSampleIsNoOp ==
    [][ /\ (call.op = "sample" /\ call'.op = "sample" /\ call'.arg = call.arg
               /\ Sample(call.arg)) =>
              UNCHANGED <<counter, previous_count>>
        /\ (call'.op = "sample" /\ call'.arg = previous_count /\ Sample(previous_count)) =>
              (call'.ret = "Ok" /\ UNCHANGED <<counter, previous_count>>) ]_vars

C6_Witness ==
    /\ call.op = "sample"
    /\ call.arg = call.prev
    /\ call.ret = "Ok"
    /\ call.before # 0
    /\ counter = call.before

(***************************************************************************)
(* C7: reset() sets cumulative_position to 0 and leaves                    *)
(* previous_raw_sample alone; count() returns cumulative_position and      *)
(* changes neither field.                                                  *)
(***************************************************************************)
C7_ResetAndCountFrame ==
    /\ call.op = "reset" =>
          /\ counter = 0
          /\ count(counter, previous_count) = 0
          /\ previous_count = call.prev
    /\ call.op = "count" =>
          /\ call.val = call.before
          /\ counter = call.before
          /\ previous_count = call.prev

C7_Witness ==
    /\ call.op = "reset"
    /\ call.before # 0
    /\ previous_count # 0

(***************************************************************************)
(* C8: whatever register values the task reads, also ones exactly 2^15     *)
(* from previous_raw_sample, it never panics over SampleTooFar: the error  *)
(* is dropped, the counter keeps its fields, and the task goes on through  *)
(* every statement to the display calls, and to its end when these         *)
(* succeed.  The only panic of a run is that of a failed display call.     *)
(***************************************************************************)
C8_TaskAbsorbsTooFar ==
    /\ panicked # "unwrap"
    /\ pc = "panic" <=> panicked = "display"
    /\ pc = "panic" => (out.op = "get" /\ shown = [val |-> rev_count, val2 |-> out.avg])
    /\ (call.op = "sample" /\ call.ret = "SampleTooFar") =>
          /\ counter = call.before
          /\ previous_count = call.prev
    /\ pc \notin {"idle", "panic"} => ENABLED TaskStep
    /\ pc = "draw" => ENABLED (TaskDraw /\ pc' = "clear")

C8_Witness ==
    /\ pc = "idle"
    /\ ticks >= 2
    /\ reads = ticks
    /\ call.op = "sample"
    /\ call.ret = "SampleTooFar"
    /\ call.before # 0
    /\ panicked = "no"

(***************************************************************************)
(* Sums and tails of the stream fed to a moving average.                   *)
(***************************************************************************)
RECURSIVE SeqSum(_)
SeqSum(seq) == IF seq = <<>> THEN 0 ELSE Head(seq) + SeqSum(Tail(seq))

LastValues(seq, k) == SubSeq(seq, Len(seq) - k + 1, Len(seq))

Min(a, b) == IF a <= b THEN a ELSE b

(***************************************************************************)
(* C9: after m >= 1 feeds to a moving average of capacity N, the average   *)
(* returned by the last feed, and by get() after it, is the mean of the    *)
(* last min(m, N) values fed: the divisor is the number of values fed      *)
(* until the window is full, and a full window gives up its oldest value.  *)
(* A constant v fed N times gives get() = v.                               *)
(***************************************************************************)
C9_AverageOfLastValues ==
    (out.op \in {"feed", "get"} /\ Len(fed) >= 1) =>
        LET k == Min(Len(fed), cap) IN
        /\ out.avg.den = k
        /\ out.avg.num = SeqSum(LastValues(fed, k))
        /\ get(acc) = out.avg
        /\ \A v \in FeedValues :
              (Len(fed) = cap /\ \A i \in 1 .. Len(fed) : fed[i] = v) =>
                  get(acc).num = v * get(acc).den

C9_Witness ==
    /\ cap = WINDOW_SIZE
    /\ Len(fed) = WINDOW_SIZE + 2
    /\ fed[1] # fed[2]
    /\ fed[2] # fed[Len(fed)]
    /\ out.op = "get"
    /\ out.avg.den = WINDOW_SIZE
    /\ out.avg.num = SeqSum(SubSeq(fed, 3, Len(fed)))

(***************************************************************************)
(* C10: in every state of a moving average reached by feed and get,        *)
(* filled_count <= N, the window holds filled_count values, running_sum    *)
(* is the sum of the values in the window, and get() changes none of it.   *)
(***************************************************************************)
C10_RunningSumIsWindowSum ==
    /\ acc.filled_count <= cap
    /\ Len(acc.window) = acc.filled_count
    /\ acc.filled_count = Min(Len(fed), cap)
    /\ acc.running_sum = SeqSum(acc.window)
    /\ out.op = "get" => acc = out.before

C10_Witness ==
    /\ cap = WINDOW_SIZE
    /\ Len(fed) > cap
    /\ acc.filled_count = cap
    /\ acc.running_sum # 0
    /\ fed[1] # 0
    /\ out.op = "get"

(***************************************************************************)
(* Notions for the runs of the task.                                       *)
(***************************************************************************)
\* The run has panicked in a display call, after its rate was computed and fed.
DisplayPanicked == pc = "panic" /\ panicked = "display"

\* The rate of the latest run has been computed, and call is its sample.
RateKnown ==
    pc \in {"feed", "draw", "clear"} \/ (pc = "idle" /\ ticks >= 1) \/ DisplayPanicked

\* The rate has been fed as well.
RateFed == pc \in {"draw", "clear"} \/ (pc = "idle" /\ ticks >= 1) \/ DisplayPanicked

\* A displacement of d counts in one run of the task, in 1/ENCODER_RATE
\* revolutions per minute.
RateOf(d) == d * TICKS_PER_SECOND * SECONDS_PER_MINUTE

(***************************************************************************)
(* C11: in a run of the task in which count() is what it was in the run    *)
(* before, the rate computed and fed to the average is exactly zero.       *)
(***************************************************************************)
C11_ZeroDisplacementZeroRate ==
    (RateKnown /\ count(counter, previous_count) = call.before) =>
        /\ revs = 0
        /\ rev_count = last_count
        /\ RateFed => (Len(fed) >= 1 /\ fed[Len(fed)] = 0)

C11_Witness ==
    /\ pc = "clear"
    /\ Len(results) >= 2
    /\ call.ret = "Ok"
    /\ call.before # 0
    /\ count(counter, previous_count) = call.before
    /\ revs = 0
    /\ fed[Len(fed)] = 0
    /\ fed[Len(fed) - 1] # 0

(***************************************************************************)
(* C12: a run whose sample returns SampleTooFar still computes the rate,   *)
(* from the unchanged count(): the delta and the rate are 0, the rate is   *)
(* fed, and last_position is set to the current position.  The next run    *)
(* whose sample succeeds gets the displacement from the sample kept.       *)
(***************************************************************************)
C12_ErrorRunFeedsZero ==
    /\ pc = "idle" => Len(fed) = Len(results)
    /\ (RateKnown /\ call.ret = "SampleTooFar") =>
          /\ count(counter, previous_count) = call.before
          /\ previous_count = call.prev
          /\ rev_count = RoundF32(count(counter, previous_count))
          /\ last_count = rev_count
          /\ revs = 0
          /\ RateFed => (Len(fed) = Len(results) /\ fed[Len(fed)] = 0)
    /\ (RateKnown /\ Len(results) >= 2 /\ results[Len(results) - 1] = "SampleTooFar"
            /\ results[Len(results)] = "Ok") =>
          /\ count(counter, previous_count) - call.before = CircDisp(call.prev, call.arg)
          /\ revs = RateOf(CircDisp(call.prev, call.arg))

C12_Witness ==
    /\ pc = "idle"
    /\ Len(results) >= 2
    /\ results[Len(results) - 1] = "SampleTooFar"
    /\ results[Len(results)] = "Ok"
    /\ fed[Len(fed) - 1] = 0
    /\ revs # 0
    /\ revs = RateOf(CircDisp(call.prev, call.arg))

(***************************************************************************)
(* C13: the first successful sample(raw) after reset() makes count() the   *)
(* signed circular displacement from the sample reset kept to raw, of      *)
(* magnitude < 2^15; sample of the sample kept leaves count() = 0.         *)
(***************************************************************************)
C13_SampleAfterReset ==
    [][(call.op = "reset" /\ call'.op = "sample" /\ Sample(call'.arg)
            /\ call'.ret = "Ok") =>
          /\ call'.prev = call.prev
          /\ count(counter', previous_count') = CircDisp(call.prev, call'.arg)
          /\ Abs(count(counter', previous_count')) < THRESHOLD
          /\ call'.arg = call.prev => count(counter', previous_count') = 0]_vars

C13_Witness ==
    /\ call.op = "sample"
    /\ call.ret = "Ok"
    /\ call.before = 0
    /\ call.prev # 0
    /\ ~Congruent
    /\ count(counter, previous_count) = CircDisp(call.prev, call.arg)
    /\ count(counter, previous_count) < 0

(***************************************************************************)
(* The QeiManager against a true position p.  The displacement between    *)
(* two consecutive samples is taken from the sample update stored last,    *)
(* at position stored, to the sample at hand: a sample that returned       *)
(* SampleTooFar was not stored, and update measures past it.               *)
(***************************************************************************)
\* The sample stored is the register at the true position.
InStep == previous_count = p % U16_MOD

\* What count() is off the true position.
Discrepancy(cnt, pos) == cnt - pos

\* d breaks the sampling precondition without landing on the threshold.
Aliasing(d) == Abs(d) >= THRESHOLD /\ d % U16_MOD # THRESHOLD

\* What a sample over the displacement d adds to the discrepancy.
AliasShift(d) == CircDisp(0, d % U16_MOD) - d

(***************************************************************************)
(* C14, as stated: a displacement d with |d| >= 2^15, d not congruent to   *)
(* 2^15 modulo 2^16, is sampled with Ok and leaves count() off the true    *)
(* position by a non-zero multiple of 2^16, and no later sample brings     *)
(* count() back onto the true position.                                    *)
(***************************************************************************)
C14_AliasNeverCorrected ==
    [][AliasedSample(p' - p) =>
          /\ Aliasing(p' - stored) =>
                /\ call'.ret = "Ok"
                /\ Discrepancy(counter', p') # 0
                /\ Discrepancy(counter', p') % U16_MOD = 0
          /\ (Discrepancy(counter, stored) # 0 /\ call'.ret = "Ok") =>
                Discrepancy(counter', p') # 0]_vars

(***************************************************************************)
(* C14, amended: in every reachable state, a sample over a displacement d  *)
(* from the sample stored last returns Ok unless d is congruent to 2^15,   *)
(* and adds CircDisp(d) - d to the discrepancy between count() and the     *)
(* true position.  For |d| >= 2^15 this is a non-zero multiple of 2^16, so *)
(* count() is off the true position afterwards if it was on it before;     *)
(* for |d| < 2^15 it is 0.  A sample that returns SampleTooFar changes and *)
(* stores nothing, and the next displacement is measured past it.          *)
(***************************************************************************)
C14_AliasShiftsDiscrepancy ==
    [][AliasedSample(p' - p) =>
          /\ previous_count = stored % U16_MOD
          /\ (p' - stored) % U16_MOD # THRESHOLD =>
                /\ call'.ret = "Ok"
                /\ stored' = p'
                /\ Discrepancy(counter', p') - Discrepancy(counter, stored)
                      = AliasShift(p' - stored)
          /\ (p' - stored) % U16_MOD = THRESHOLD =>
                /\ call'.ret = "SampleTooFar"
                /\ stored' = stored
                /\ counter' = counter
                /\ previous_count' = previous_count
          /\ Aliasing(p' - stored) =>
                /\ AliasShift(p' - stored) # 0
                /\ AliasShift(p' - stored) % U16_MOD = 0
                /\ Discrepancy(counter, stored) = 0 => Discrepancy(counter', p') # 0
          /\ Abs(p' - stored) < THRESHOLD =>
                Discrepancy(counter', p') = Discrepancy(counter, stored)]_vars

\* The register went from 32769 to 2, past a sample that was not stored:
\* each move is below 2^15, the two together are counted 2^15 - 1 back.
C14_Witness ==
    /\ call.op = "sample"
    /\ call.ret = "Ok"
    /\ call.prev = THRESHOLD + 1
    /\ call.arg = 2
    /\ p - call.arg = U16_MOD
    /\ stored = p
    /\ InStep
    /\ counter - call.before = -(THRESHOLD - 1)
    /\ Discrepancy(counter, p) = -2 * U16_MOD

(***************************************************************************)
(* C15: a run of the task reads the register once, samples the value read, *)
(* computes the rate and stores last_count, feeds the average, and draws   *)
(* count() and get(), in this order; a run ends before the next begins,    *)
(* and nothing but the task's own statements changes the QeiManager,       *)
(* last_count or the average.                                              *)
(***************************************************************************)
TaskOrder ==
    { <<"idle", "sample">>, <<"sample", "rate">>, <<"rate", "feed">>,
      <<"feed", "draw">>, <<"draw", "clear">>, <<"clear", "idle">> }

\* A run ends early only in a panic of a display call, when get() has
\* been called.
DisplayPanic == pc = "draw" /\ pc' = "panic" /\ panicked' = "display" /\ out'.op = "get"

C15_TickOrder ==
    [][/\ pc' # pc => (<<pc, pc'>> \in TaskOrder \/ DisplayPanic)
       /\ reads' = ticks' + (IF pc' = "idle" THEN 0 ELSE 1)
       /\ reads' # reads => (pc = "idle" /\ pc' = "sample" /\ reads' = reads + 1)
       /\ brr' # brr => (pc = "idle" /\ pc' = "sample")
       /\ (pc = "sample" /\ pc' = "rate") =>
             (call'.op = "sample" /\ call'.arg = brr /\ Len(results') = reads)
       /\ (pc = "rate" /\ pc' = "feed") =>
             /\ rev_count' = RoundF32(count(counter, previous_count))
             /\ last_count' = rev_count'
       /\ (pc = "feed" /\ pc' = "draw") =>
             (fed' = Append(fed, revs) /\ Len(fed') = reads)
       /\ (pc = "draw" /\ pc' # pc) =>
             (shown' = [val |-> rev_count, val2 |-> get(acc)] /\ out'.op = "get")
       /\ <<counter, previous_count>>' # <<counter, previous_count>> => pc = "sample"
       /\ <<rev_count, last_count, revs>>' # <<rev_count, last_count, revs>> => pc = "rate"
       /\ acc' # acc => pc = "feed"
       /\ shown' # shown => pc = "draw"]_vars

C15_Witness ==
    /\ pc = "clear"
    /\ ticks = 1
    /\ reads = 2
    /\ uif
    /\ Len(results) = 2
    /\ Len(fed) = 2
    /\ call.arg = brr
    /\ call.ret = "Ok"
    /\ fed[2] # 0
    /\ out.op = "get"
    /\ shown.val = rev_count
    /\ last_count = rev_count

(***************************************************************************)
(* C16: for the samples of the model, no u16 expression of update leaves   *)
(* 0..65535, so update computes the same with and without overflow checks, *)
(* and a successful update moves the counter by at most 2^15 - 1.          *)
(***************************************************************************)
C16_NoU16Overflow ==
    call.op = "sample" =>
        /\ ~UpdateOverflows(call.prev, call.arg)
        /\ call.ret = "Ok" => Abs(counter - call.before) <= THRESHOLD - 1
        /\ (call.ret = "Ok" /\ call.arg # call.prev) =>
              Abs(counter - call.before)
                  = UpdateIntermediates(call.prev, call.arg)
                        [Len(UpdateIntermediates(call.prev, call.arg))]

\* A wrap backwards by 2^15 - 1.
C16_Witness ==
    /\ call.op = "sample"
    /\ call.ret = "Ok"
    /\ call.prev < call.arg
    /\ call.prev > 0
    /\ call.arg - call.prev > THRESHOLD
    /\ Len(UpdateIntermediates(call.prev, call.arg)) = 5
    /\ call.before - counter = THRESHOLD - 1

(***************************************************************************)
(* C17: with previous_count = a and b less than 2^15 away from a around    *)
(* the register, sample(b) succeeds, and sample(a) after it succeeds and   *)
(* brings counter and previous_count back to what they were.               *)
(***************************************************************************)
C17_RoundTrip ==
    [][(call.op = "sample" /\ CircDist(call.prev, call.arg) < THRESHOLD) =>
          /\ call.ret = "Ok"
          /\ previous_count = call.arg
          /\ (call'.op = "sample" /\ call'.arg = call.prev /\ Sample(call'.arg)) =>
                /\ call'.ret = "Ok"
                /\ counter' = call.before
                /\ previous_count' = call.prev]_vars

\* 65535, then 0, then 65535 again: underflow, overflow, underflow.
C17_Witness ==
    /\ call.op = "sample"
    /\ call.ret = "Ok"
    /\ call.prev = 0
    /\ call.arg = U16_MAX
    /\ call.before = 0
    /\ counter = -1
    /\ previous_count = U16_MAX
    /\ Congruent

(***************************************************************************)
(* C18: when a run of the task is over, last_count is count() as an f32,   *)
(* and the rates fed so far add up to the rate of the whole displacement   *)
(* from 0 to count(): every run, failed samples included, contributes the  *)
(* change of count() since the run before.                                 *)
(***************************************************************************)
C18_DeltasSumToPosition ==
    pc = "idle" =>
        /\ last_count = RoundF32(count(counter, previous_count))
        /\ rev_count = last_count
        /\ Len(fed) = ticks
        /\ \A i \in DOMAIN fed : fed[i] % RateOf(1) = 0
        /\ SeqSum(fed) = RateOf(last_count)

C18_Witness ==
    /\ pc = "idle"
    /\ ticks = MaxTicks
    /\ \E i \in DOMAIN results : results[i] = "SampleTooFar"
    /\ fed[1] # 0
    /\ fed[MaxTicks] # 0
    /\ count(counter, previous_count) # 0
    /\ SeqSum(fed) = RateOf(count(counter, previous_count))

(***************************************************************************)
(* C19: the task calls get() only on an average that has been fed, so      *)
(* running_sum / filled_count is never computed with filled_count = 0.     *)
(***************************************************************************)
C19_GetAfterFeed ==
    /\ pc = "draw" => acc.filled_count >= 1
    /\ out.op = "get" =>
          /\ out.before.filled_count >= 1
          /\ out.avg.den >= 1
          /\ out.before.filled_count = Min(Len(fed), cap)

C19_Witness ==
    /\ out.op = "get"
    /\ ticks = 0
    /\ pc = "clear"
    /\ out.before.filled_count = 1
    /\ out.avg.den = 1
    /\ shown.val2 = out.avg

====
